---- MODULE Spec2Model ----
(***************************************************************************)
(* The analysis job queue of backchannel: the analysis_jobs table, the     *)
(* claim_analysis_job() database function, the analyzer's polling loop     *)
(* (processNextJob, processJob, handleJobError) and the archiver's         *)
(* enqueueAnalysisJob, as a state machine.                                 *)
(***************************************************************************)
EXTENDS Integers, FiniteSets, Sequences, TLC

\* ---- bounds of the model ------------------------------------------------
NumWorkers == 2
MaxJobs == 2
MaxTime == 1
MaxRows == 1
MaxRedeliveries == 1

\* ---- configuration ------------------------------------------------------
\* config.maxRetries (MAX_RETRIES ?? '3')
maxRetries == 3
\* config.maxVideoDurationSec (AI_MAX_VIDEO_DURATION_SEC ?? '300')
maxVideoDurationSec == 300

Workers == 1..NumWorkers
\* One row of analysis_jobs per event: event_id is UNIQUE, so the event
\* number stands for both the row id and the event_id.
JobIds == 1..MaxJobs
\* SQL NULL of a timestamp column
NULL == -1
NoJob == 0

MediaTypes == {"image", "video", "audio"}
ProviderNames == {"gemini", "claude", "openai"}
Statuses == {"pending", "processing", "completed", "failed"}

\* The media type of the event delivered under each event number.
EventMedia(e) ==
  IF e % 3 = 1 THEN "image" ELSE IF e % 3 = 2 THEN "video" ELSE "audio"

\* media_info.duration (milliseconds) of the event delivered under each event
\* number: the videos run 400 s, images and audio carry no duration.
EventDuration(e) == IF EventMedia(e) = "video" THEN 400000 ELSE NULL

\* The provider selections (IMAGE_PROVIDER, VIDEO_PROVIDER, AUDIO_PROVIDER)
\* the model starts from: all gemini (the defaults), or video given to claude.
ProviderConfigs ==
  { [mt \in MediaTypes |-> "gemini"],
    [mt \in MediaTypes |-> IF mt = "video" THEN "claude" ELSE "gemini"] }

\* createProvider: only gemini is implemented; claude and openai throw.
createProvider(name) == name = "gemini"

\* initializeProviders: the media types whose provider could be created;
\* a failure is caught and only logged.
initializeProviders(cfg) == { mt \in MediaTypes : createProvider(cfg[mt]) }

VARIABLES
  jobs,        \* the analysis_jobs table: JobIds -> row ("absent": no row)
  lock,        \* row lock held by a claim transaction: JobIds -> worker or 0
  worker,      \* each analyzer's position and the job record it was handed
  providers,   \* Analyzer.providers: the media types that have a provider
  now,         \* the clock, NOW() / new Date()
  claims,      \* history: how many times each job was claimed
  deliveries,  \* history: how many times an archiver enqueued an event again
  results,     \* the media_analysis table: a set of rows
  replaced,    \* history: the row an upsert into media_analysis replaced last
  prompts,     \* the ai_prompts table: a set of rows
  composed,    \* history: the last call of buildPrompt and what it returned
  proc,        \* one analyzer process: its lifecycle, flag, token and settings
  fetched,     \* history: the last call of downloadMedia and what it returned
  db,          \* the database archiver: bridge rows, cursor, batch, messages
  calls        \* history: the last run of processJob and the calls it made

resultVars == <<results, replaced>>
promptVars == <<prompts, composed>>
serviceVars == <<proc, fetched, db, calls>>
vars == <<jobs, lock, worker, providers, now, claims, deliveries,
          results, replaced, prompts, composed, proc, fetched, db,
          calls>>

NoRow ==
  [status |-> "absent", attempts |-> 0, retry_after |-> NULL,
   started_at |-> NULL, completed_at |-> NULL, last_error |-> "none",
   created_at |-> NULL, media_type |-> "none", duration |-> NULL]

\* The row the archiver's upsert inserts: the table defaults plus the payload.
NewRow(e, t) ==
  [status |-> "pending", attempts |-> 0, retry_after |-> NULL,
   started_at |-> NULL, completed_at |-> NULL, last_error |-> "none",
   created_at |-> t, media_type |-> EventMedia(e),
   duration |-> EventDuration(e)]

\* ---- the media_analysis table ---------------------------------------------
NoResult == [event_id |-> NoJob, media_type |-> "none",
             analysis_type |-> "none", content |-> 0]

\* storeResult: analysisType = audio ? 'transcription' : 'description'
analysisType(mt) == IF mt = "audio" THEN "transcription" ELSE "description"

\* The record storeResult upserts for event e.
ResultRow(e, mt, content) ==
  [event_id |-> e, media_type |-> mt, analysis_type |-> analysisType(mt),
   content |-> content]

\* UNIQUE(event_id, analysis_type)
SameKey(r, q) ==
  r.event_id = q.event_id /\ r.analysis_type = q.analysis_type

\* Variant: a plain insert, without the conflict target.
UpsertResult_Insert(rs, row) == rs \cup {row}

\* upsert(row, { onConflict: 'event_id,analysis_type' }): the row replaces
\* the one of the same key, if any.
UpsertResult(rs, row) == { r \in rs : ~SameKey(r, row) } \cup {row}

\* ---- the ai_prompts table and Analyzer.buildPrompt -------------------------
MaxPrompts == 3
MaxOrgs == 1

\* organization ids; a global prompt has organization_id NULL
Orgs == 1..MaxOrgs
\* prompt_type: 'master', 'image', 'video', 'audio'
PromptTypes == {"master"} \cup MediaTypes
\* prompt_content is TEXT NOT NULL: the empty text and two others
PromptTexts == {"", "a", "b"}

PromptRows ==
  [prompt_type : PromptTypes, organization_id : {NULL} \cup Orgs,
   prompt_name : {"default"}, prompt_content : PromptTexts,
   is_active : BOOLEAN]

\* UNIQUE(prompt_type, organization_id, prompt_name); rows with a NULL
\* organization_id never conflict.
PromptConflict(r, q) ==
  /\ r.organization_id # NULL
  /\ r.prompt_type = q.prompt_type
  /\ r.organization_id = q.organization_id
  /\ r.prompt_name = q.prompt_name

NoPrompt == [mediaType |-> "none", organizationId |-> NULL, prompt |-> <<>>]

\* A text as the sequence of its parts, the empty text having none.
Text(c) == IF c = "" THEN <<>> ELSE <<c>>

\* The separator of prompts.join: one blank line
Blank == "\n\n"

\* .eq('prompt_type', t).eq / .is('organization_id', org).eq('is_active', true)
SelectPrompts(table, t, org) ==
  { r \in table :
      r.prompt_type = t /\ r.organization_id = org /\ r.is_active }

\* .single(): the row when the query matched exactly one, else data is null
\* (the null answer standing here as the empty text, which is skipped alike).
Single(rows) ==
  IF Cardinality(rows) = 1 THEN (CHOOSE r \in rows : TRUE).prompt_content
  ELSE ""

\* Variant: the media-type prompt is asked for before the master prompt.
PromptQueries_KindFirst(mediaType, organizationId) ==
  << <<mediaType, NULL>>, <<"master", NULL>> >>
    \o (IF organizationId # NULL
          THEN << <<mediaType, organizationId>> >> ELSE <<>>)

\* The queries buildPrompt makes, in its order: master, media type, and the
\* organization's when organizationId is given.
PromptQueries(mediaType, organizationId) ==
  << <<"master", NULL>>, <<mediaType, NULL>> >>
    \o (IF organizationId # NULL
          THEN << <<mediaType, organizationId>> >> ELSE <<>>)

\* if (x?.prompt_content) prompts.push(x.prompt_content), query after query
RECURSIVE Pushed(_, _)
Pushed(table, qs) ==
  IF qs = <<>> THEN <<>>
  ELSE LET c == Single(SelectPrompts(table, Head(qs)[1], Head(qs)[2]))
       IN (IF c # "" THEN <<c>> ELSE <<>>) \o Pushed(table, Tail(qs))

\* prompts.join('\n\n')
RECURSIVE Join(_)
Join(texts) ==
  IF texts = <<>> THEN <<>>
  ELSE IF Len(texts) = 1 THEN Text(Head(texts))
  ELSE Text(Head(texts)) \o <<Blank>> \o Join(Tail(texts))

buildPrompt(table, mediaType, organizationId) ==
  Join(Pushed(table, PromptQueries(mediaType, organizationId)))

\* ---- the analyzer process: settings, startup, login ------------------------
\* The environment settings validateConfig and createProvider read.
StoreSettings == {"SUPABASE_URL", "SUPABASE_SERVICE_ROLE_KEY", "MATRIX_PASSWORD"}
KeySettings == {"GOOGLE_AI_API_KEY", "ANTHROPIC_API_KEY", "OPENAI_API_KEY"}
Settings == StoreSettings \cup KeySettings

\* The API key setting of a provider; a name that is none of the three has none.
ApiKeyOf(name) ==
  CASE name = "gemini" -> "GOOGLE_AI_API_KEY"
    [] name = "claude" -> "ANTHROPIC_API_KEY"
    [] name = "openai" -> "OPENAI_API_KEY"
    [] OTHER -> "none"

\* The provider selections a process may be started with: the two of
\* ProviderConfigs, and audio given to a name that is no provider (the
\* setting is cast to ProviderName unchecked).
Selections ==
  ProviderConfigs \cup
  { [mt \in MediaTypes |-> IF mt = "audio" THEN "other" ELSE "gemini"] }

\* Variant: the API keys of the selected providers are not looked at.
validateConfig_NoKeys(unset, selected) == unset \cap StoreSettings

\* validateConfig: the errors it collects; it throws when there is any.
validateConfig(unset, selected) ==
  (unset \cap StoreSettings) \cup
  ({ ApiKeyOf(n) : n \in { selected[mt] : mt \in MediaTypes } } \cap unset)

\* createProvider with the settings: gemini needs its API key, every other
\* name throws.
createProviderWith(name, unset) ==
  createProvider(name) /\ ApiKeyOf(name) \notin unset

\* A process that has not run main() yet, with its settings.
NotStarted(unset, selected) ==
  [pc |-> "init", running |-> FALSE, token |-> "none", stopped |-> FALSE,
   authTried |-> FALSE, status |-> "none", hint |-> NULL, wait |-> NULL,
   unset |-> unset, selected |-> selected]

\* A process that has logged in and is in the loop of run().
Polling ==
  [NotStarted({}, [mt \in MediaTypes |-> "gemini"]) EXCEPT
     !.pc = "loop", !.running = TRUE, !.token = "valid", !.authTried = TRUE,
     !.status = "200"]

\* The answers to the login request: the status, or a thrown fetch.
LoginAnswers == {"200", "429", "other", "throw"}
\* body.retry_after_ms of a 429 answer: absent, or a number of milliseconds
RetryHints == {NULL, 0, 1500}

\* Variant: the server's hint is not read.
LoginWait_Fixed(status, hint) == IF status = "429" THEN 60000 ELSE 5000

\* The sleep after a failed login: body.retry_after_ms ?? 60000 on a 429,
\* 5000 after any other status and after a thrown error.
LoginWait(status, hint) ==
  IF status = "429" THEN (IF hint # NULL THEN hint ELSE 60000) ELSE 5000

\* ---- Analyzer.processJob, seen as a function of the job --------------------
NoCalls == [media_type |-> "none", duration |-> NULL, providers |-> {},
            outcome |-> "none", store |-> "none", steps |-> <<>>,
            result |-> "none", analysis_type |-> "none"]

\* ---- Analyzer.downloadMedia ------------------------------------------------
NoFetch == [token |-> FALSE, mxc |-> FALSE, answers |-> <<>>, ok |-> FALSE,
            requests |-> 0, slept |-> <<>>]

\* How many answers the media source has ready for one fetch, one more than
\* the fetch may ask for.
MaxAnswers == 4

\* The answers to a media request: status 200, status 404, any other status,
\* or a thrown fetch.
MediaAnswers == {"200", "404", "other", "throw"}

\* Variant: a 404 and a thrown fetch are tried again whatever the attempt.
Retried_NoLimit(answer, attempt) == answer \in {"404", "throw"}

\* resp.status === 404 && attempt < 2, and the catch with attempt < 2
Retried(answer, attempt) == answer \in {"404", "throw"} /\ attempt < 2

\* sleep(2000) after a 404, sleep(1000) after a thrown fetch
RetrySleep(answer) == IF answer = "404" THEN 2000 ELSE 1000

\* for (let attempt = 0; attempt < 3; attempt++): the requests from the given
\* attempt on, after the sleeps made so far.
RECURSIVE Requests(_, _, _)
Requests(answers, attempt, slept) ==
  IF attempt >= 3
    THEN [ok |-> FALSE, requests |-> attempt, slept |-> slept]
  ELSE LET answer == answers[attempt + 1]
       IN IF answer = "200"
            THEN [ok |-> TRUE, requests |-> attempt + 1, slept |-> slept]
          ELSE IF Retried(answer, attempt)
            THEN Requests(answers, attempt + 1,
                          Append(slept, RetrySleep(answer)))
          ELSE [ok |-> FALSE, requests |-> attempt + 1, slept |-> slept]

\* downloadMedia: null without a token or with a malformed mxc URL, else the
\* requests.
downloadMedia(token, mxc, answers) ==
  IF ~token \/ ~mxc THEN [ok |-> FALSE, requests |-> 0, slept |-> <<>>]
  ELSE Requests(answers, 0, <<>>)

\* ---- the database archiver ---------------------------------------------------
\* ---- DatabaseArchiver ---------------------------------------------------
\* The rows of the bridge's message table, the timestamps they carry and the
\* LIMIT of the poll query (BATCH_SIZE, 100 by default).
MaxMessages == 3
MaxStamp == 2
BatchSize == 2

\* loadState with no state file, and the tables before any message: the
\* archiver sleeps between two poll cycles.
NoDb == [bridge |-> {}, state |-> [lastTimestamp |-> 0, lastRowId |-> 0],
         saved |-> [lastTimestamp |-> 0, lastRowId |-> 0],
         batch |-> <<>>, messages |-> {}, failed |-> {}, pc |-> "sleep"]

\* WHERE m.timestamp > $1 OR (m.timestamp = $1 AND m.rowid > $2)
NewerThan(m, st) ==
  \/ m.timestamp > st.lastTimestamp
  \/ m.timestamp = st.lastTimestamp /\ m.rowid > st.lastRowId

\* ORDER BY m.timestamp ASC, m.rowid ASC
RowBefore(m, n) ==
  \/ m.timestamp < n.timestamp
  \/ m.timestamp = n.timestamp /\ m.rowid < n.rowid

\* The first rows of a set in that order, up to the LIMIT.
RECURSIVE Ordered(_, _)
Ordered(rows, limit) ==
  IF rows = {} \/ limit = 0 THEN <<>>
  ELSE LET first == CHOOSE m \in rows : \A n \in rows \ {m} : RowBefore(m, n)
       IN <<first>> \o Ordered(rows \ {first}, limit - 1)

\* The poll query.
Query(bridge, st) == Ordered({ m \in bridge : NewerThan(m, st) }, BatchSize)

\* What the processing of one message can do: archive it; get an error from
\* the messages upsert; throw (the Synapse query or the JSON parse); or find
\* no event to archive.
MessageOutcomes == {"archived", "upsert_error", "throw", "no_event"}

\* processMessage returned without throwing: the loop body goes on to set
\* state.lastTimestamp and state.lastRowId. archiveMessage logs an upsert
\* error and returns.
Advances(outcome) == outcome # "throw"


Idle == [pc |-> "poll", job |-> NoJob, attempts |-> 0, error |-> "none"]
Asleep == [Idle EXCEPT !.pc = "sleep"]

Init ==
  /\ jobs = [j \in JobIds |-> NoRow]
  /\ lock = [j \in JobIds |-> 0]
  /\ worker = [w \in Workers |-> Idle]
  /\ \E cfg \in ProviderConfigs : providers = initializeProviders(cfg)
  /\ now = 0
  /\ claims = [j \in JobIds |-> 0]
  /\ deliveries = 0
  /\ results = {}
  /\ replaced = NoResult
  /\ prompts = {}
  /\ composed = NoPrompt
  /\ proc = Polling
  /\ fetched = NoFetch
  /\ db = NoDb
  /\ calls = NoCalls

\* ---- the clock ----------------------------------------------------------
Tick ==
  /\ now < MaxTime
  /\ now' = now + 1
  /\ UNCHANGED <<jobs, lock, worker, providers, claims, deliveries>>
  /\ UNCHANGED <<resultVars, promptVars, serviceVars>>

\* ---- the producer: Archiver.enqueueAnalysisJob --------------------------
\* upsert(job, { onConflict: 'event_id' }): INSERT ... ON CONFLICT (event_id)
\* DO UPDATE SET every column of the payload, status: 'pending' among them.
UpsertJob(row, e, t) ==
  IF row.status = "absent"
    THEN NewRow(e, t)
    ELSE [row EXCEPT !.status = "pending", !.media_type = EventMedia(e),
                     !.duration = EventDuration(e)]

RowCount == Cardinality({ j \in JobIds : jobs[j].status # "absent" })

\* An archiver archives event e, for the first time or (after a restart, or
\* as the second archiver) again, and enqueues its job.
EnqueueAnalysisJob(e) ==
  /\ IF jobs[e].status = "absent"
       THEN RowCount < MaxRows /\ deliveries' = deliveries
       ELSE deliveries < MaxRedeliveries /\ deliveries' = deliveries + 1
  /\ lock[e] = 0                       \* the update waits for a row lock
  /\ jobs' = [jobs EXCEPT ![e] = UpsertJob(jobs[e], e, now)]
  /\ UNCHANGED <<lock, worker, providers, now, claims>>
  /\ UNCHANGED <<resultVars, promptVars, serviceVars>>

\* ---- claim_analysis_job() -----------------------------------------------
\* Variant: the WHERE clause without its status test.
Ready_AnyStatus(row, t) ==
  /\ row.status # "absent"
  /\ (row.retry_after = NULL \/ row.retry_after <= t)

\* WHERE status = 'pending' AND (retry_after IS NULL OR retry_after <= NOW())
Ready(row, t) ==
  /\ row.status = "pending"
  /\ (row.retry_after = NULL \/ row.retry_after <= t)

\* Variant: a plain SELECT, which neither takes nor respects a row lock.
\* Variant: FOR UPDATE without SKIP LOCKED: while the oldest ready row is
\* locked, the SELECT waits for it and finds nothing to take.
Candidates_Blocking(js, lk, t) ==
  LET ready == { j \in JobIds : Ready(js[j], t) }
  IN IF \E j \in ready :
          lk[j] # 0 /\ \A k \in ready : js[j].created_at <= js[k].created_at
       THEN {}
       ELSE ready

Candidates_NoRowLock(js, lk, t) == { j \in JobIds : Ready(js[j], t) }

\* ... FOR UPDATE SKIP LOCKED: rows locked by another transaction are skipped
Candidates(js, lk, t) == { j \in JobIds : Ready(js[j], t) /\ lk[j] = 0 }

\* Variant: LIMIT 1 without the ORDER BY.
Oldest_Any(js, c) == c

\* ORDER BY created_at ASC LIMIT 1 (rows of equal created_at in any order)
Oldest(js, c) == { j \in c : \A k \in c : js[j].created_at <= js[k].created_at }

\* Variant: the UPDATE without status = 'processing'.
ClaimUpdate_KeepsStatus(row, t) ==
  [row EXCEPT !.started_at = t, !.attempts = row.attempts + 1,
              !.retry_after = NULL]

\* UPDATE ... SET status, started_at, attempts, retry_after WHERE id = claimed
ClaimUpdate(row, t) ==
  [row EXCEPT !.status = "processing", !.started_at = t,
              !.attempts = row.attempts + 1, !.retry_after = NULL]

\* Variant: the function returns the row as it was selected.
claimed_job_Selected(row, t) == row

\* The record the function returns: the selected row with the same four
\* assignments made to it (claimed_job.status := 'processing', ...).
claimed_job(row, t) ==
  [row EXCEPT !.status = "processing", !.started_at = t,
              !.attempts = row.attempts + 1, !.retry_after = NULL]

\* processNextJob calls the rpc; the function's SELECT finds no row and
\* returns empty: the cycle ends and the worker sleeps.
ClaimNone(w) ==
  /\ worker[w].pc = "poll"
  /\ Candidates(jobs, lock, now) = {}
  /\ worker' = [worker EXCEPT ![w] = Asleep]
  /\ UNCHANGED <<jobs, lock, providers, now, claims, deliveries>>
  /\ UNCHANGED <<resultVars, promptVars, serviceVars>>

\* The function's SELECT ... FOR UPDATE SKIP LOCKED takes the row lock.
ClaimSelect(w) ==
  /\ worker[w].pc = "poll"
  /\ \E j \in Oldest(jobs, Candidates(jobs, lock, now)) :
       /\ lock' = [lock EXCEPT ![j] = w]
       /\ worker' = [worker EXCEPT ![w] = [Idle EXCEPT !.pc = "claim", !.job = j]]
  /\ UNCHANGED <<jobs, providers, now, claims, deliveries>>
  /\ UNCHANGED <<resultVars, promptVars, serviceVars>>

\* The function's UPDATE and the commit, which releases the lock; the rpc
\* answers with the updated row, or the answer is lost (fetchError) and
\* processNextJob returns without a job.
ClaimCommit(w, delivered) ==
  /\ worker[w].pc = "claim"
  /\ LET j == worker[w].job
         row == ClaimUpdate(jobs[j], now)
     IN /\ jobs' = [jobs EXCEPT ![j] = row]
        /\ lock' = [lock EXCEPT ![j] = IF lock[j] = w THEN 0 ELSE lock[j]]
        /\ claims' = [claims EXCEPT ![j] = claims[j] + 1]
        /\ worker' = [worker EXCEPT ![w] =
             IF delivered
               THEN [pc |-> "run", job |-> j,
                     attempts |-> claimed_job(jobs[j], now).attempts,
                     error |-> "none"]
               ELSE Asleep]
  /\ UNCHANGED <<providers, now, deliveries>>
  /\ UNCHANGED <<resultVars, promptVars, serviceVars>>

\* ---- Analyzer.processJob ------------------------------------------------
\* The outcomes of the download and the provider call.
Outcomes == {"ok", "download", "provider"}

\* job.media_type === 'video' && job.media_info?.duration, and
\* duration / 1000 > config.maxVideoDurationSec
\* Variant: the duration compared in whole seconds.
DurationExceeded_WholeSeconds(mt, d) ==
  /\ mt = "video"
  /\ d # NULL /\ d # 0
  /\ d \div 1000 > maxVideoDurationSec

DurationExceeded(mt, d) ==
  /\ mt = "video"
  /\ d # NULL /\ d # 0
  /\ d > maxVideoDurationSec * 1000

\* What processJob comes to before storeResult: the provider lookup throws
\* when the media type has no provider, then the duration check throws, then
\* the download or the provider call may throw, or all succeed.
PipelineResult(mt, d, provs, outcome) ==
  IF mt \notin provs THEN "no_provider"
  ELSE IF DurationExceeded(mt, d) THEN "duration"
  ELSE outcome

\* Variant: the throw starts the next cycle at once, without handleJobError.
Caught_NextCycle(w, res) == Idle

\* Variant: the throw escapes processNextJob to the catch of run's loop.
Caught_Escaped(w, res) == Asleep

\* processNextJob's try / catch: a throw of processJob goes to handleJobError.
Caught(w, res) == [w EXCEPT !.pc = "err", !.error = res]

\* ---- Analyzer.storeResult ----------------------------------------------
\* What the upsert may come to: the row is stored; the store rejects it; or
\* the row is stored and the answer is lost, so that an error is reported.
StoreOutcomes == {"stored", "rejected", "lost"}

\* The row of this execution: the provider's answer, told apart from the
\* answers of the job's other executions by the attempt number.
ResultOf(w) ==
  ResultRow(worker[w].job, jobs[worker[w].job].media_type, worker[w].attempts)

\* Variant: the error of the upsert is logged and not thrown.
storeThrows_Never(o) == FALSE

\* if (error) throw error
storeThrows(o) == o # "stored"

\* The row of the same key that differs from the one written, if any.
Conflicting(rs, row) == { r \in rs : SameKey(r, row) /\ r # row }

\* Variant: the pipeline goes on without writing the result.
StoreResult_Skipped(row, o) == UNCHANGED resultVars

\* storeResult's upsert of row, coming to o.
StoreResult(row, o) ==
  IF o = "rejected"
    THEN UNCHANGED resultVars
    ELSE /\ results' = UpsertResult(results, row)
         /\ replaced' = IF Conflicting(results, row) = {} THEN replaced
                         ELSE CHOOSE r \in Conflicting(results, row) : TRUE

\* processJob up to its last store update.  The download and the provider
\* call touch nothing shared, so they and storeResult make one step.
ProcessJob(w, outcome, o) ==
  /\ worker[w].pc = "run"
  /\ LET j == worker[w].job
         res == PipelineResult(jobs[j].media_type, jobs[j].duration,
                               providers, outcome)
     IN IF res # "ok"
          THEN /\ worker' = [worker EXCEPT ![w] = Caught(@, res)]
               /\ UNCHANGED resultVars
          ELSE /\ StoreResult(ResultOf(w), o)
               /\ worker' = [worker EXCEPT ![w] =
                    IF storeThrows(o) THEN Caught(@, "store")
                                      ELSE [@ EXCEPT !.pc = "ok"]]
  /\ UNCHANGED <<jobs, lock, providers, now, claims, deliveries, promptVars,
                 serviceVars>>

\* Variant: every media type goes to analyzeImage.
EntryPoint_Image(mt) == "analyzeImage"

\* switch (job.media_type): the provider method called, or the default
\* branch's throw.
EntryPoint(mt) ==
  CASE mt = "image" -> "analyzeImage"
    [] mt = "video" -> "analyzeVideo"
    [] mt = "audio" -> "analyzeAudio"
    [] OTHER -> "throw"

\* The calls processJob makes, in order, for a job of media type mt and
\* duration d, the download and the provider call coming to outcome and the
\* upsert of storeResult to o.
processJobSteps(mt, d, provs, outcome, o) ==
  LET res == PipelineResult(mt, d, provs, outcome)
  IN IF res \in {"no_provider", "duration"} THEN <<>>
     ELSE IF res = "download" THEN <<"downloadMedia">>
     ELSE IF EntryPoint(mt) = "throw" THEN <<"downloadMedia", "buildPrompt">>
     ELSE IF res = "provider"
       THEN <<"downloadMedia", "buildPrompt", EntryPoint(mt)>>
     ELSE <<"downloadMedia", "buildPrompt", EntryPoint(mt), "storeResult">>
            \o (IF storeThrows(o) THEN <<>> ELSE <<"update">>)

\* How processJob ends: the error it throws, or "ok".
processJobResult(mt, d, provs, outcome, o) ==
  LET res == PipelineResult(mt, d, provs, outcome)
  IN IF res \in {"no_provider", "duration", "download"} THEN res
     ELSE IF EntryPoint(mt) = "throw" THEN "unknown_type"
     ELSE IF res = "provider" THEN res
     ELSE IF storeThrows(o) THEN "store" ELSE "ok"

\* update({status: 'completed', completed_at}).eq('id', job.id)
CompletedUpdate(row, t) ==
  [row EXCEPT !.status = "completed", !.completed_at = t]

\* The last step of processJob; the update's error, if any, is not looked at.
MarkCompleted(w, applied) ==
  /\ worker[w].pc = "ok"
  /\ LET j == worker[w].job
     IN /\ applied => lock[j] = 0
        /\ jobs' = [jobs EXCEPT ![j] =
             IF applied THEN CompletedUpdate(jobs[j], now) ELSE jobs[j]]
  /\ worker' = [worker EXCEPT ![w] = Asleep]
  /\ UNCHANGED <<lock, providers, now, claims, deliveries>>
  /\ UNCHANGED <<resultVars, promptVars, serviceVars>>

\* ---- Analyzer.handleJobError --------------------------------------------
\* newAttempts = job.attempts + 1, job being the record the claim returned
newAttempts(attempts) == attempts + 1

newStatus(attempts) ==
  IF newAttempts(attempts) >= maxRetries THEN "failed" ELSE "pending"

\* Variant: last_error is written only while the row has none.
FailureUpdate_FirstError(row, attempts, msg) ==
  [row EXCEPT !.status = newStatus(attempts),
              !.attempts = newAttempts(attempts),
              !.last_error = IF @ = "none" THEN msg ELSE @,
              !.started_at = NULL]

\* update({status, attempts, last_error, started_at: null}).eq('id', job.id)
FailureUpdate(row, attempts, msg) ==
  [row EXCEPT !.status = newStatus(attempts),
              !.attempts = newAttempts(attempts),
              !.last_error = msg,
              !.started_at = NULL]

HandleJobError(w, applied) ==
  /\ worker[w].pc = "err"
  /\ LET j == worker[w].job
     IN /\ applied => lock[j] = 0
        /\ jobs' = [jobs EXCEPT ![j] =
             IF applied
               THEN FailureUpdate(jobs[j], worker[w].attempts, worker[w].error)
               ELSE jobs[j]]
  /\ worker' = [worker EXCEPT ![w] = Asleep]
  /\ UNCHANGED <<lock, providers, now, claims, deliveries>>
  /\ UNCHANGED <<resultVars, promptVars, serviceVars>>

\* ---- Analyzer.run: sleep(pollIntervalMs) between cycles -------------------
Wake(w) ==
  /\ worker[w].pc = "sleep"
  /\ worker' = [worker EXCEPT ![w] = Idle]
  /\ UNCHANGED <<jobs, lock, providers, now, claims, deliveries>>
  /\ UNCHANGED <<resultVars, promptVars, serviceVars>>

\* ---- the system: analyzers and archivers sharing the table --------------
Next ==
  \/ Tick
  \/ \E e \in JobIds : EnqueueAnalysisJob(e)
  \/ \E w \in Workers : ClaimNone(w)
  \/ \E w \in Workers : ClaimSelect(w)
  \/ \E w \in Workers, d \in BOOLEAN : ClaimCommit(w, d)
  \/ \E w \in Workers, oc \in Outcomes, o \in StoreOutcomes :
       ProcessJob(w, oc, o)
  \/ \E w \in Workers, a \in BOOLEAN : MarkCompleted(w, a)
  \/ \E w \in Workers, a \in BOOLEAN : HandleJobError(w, a)
  \/ \E w \in Workers : Wake(w)

Spec == Init /\ [][Next]_vars

\* ---- the analyzers with archivers that deliver every event once ---------
NextFresh ==
  \/ Tick
  \/ \E e \in JobIds : jobs[e].status = "absent" /\ EnqueueAnalysisJob(e)
  \/ \E w \in Workers : ClaimNone(w)
  \/ \E w \in Workers : ClaimSelect(w)
  \/ \E w \in Workers, d \in BOOLEAN : ClaimCommit(w, d)
  \/ \E w \in Workers, oc \in Outcomes, o \in StoreOutcomes :
       ProcessJob(w, oc, o)
  \/ \E w \in Workers, a \in BOOLEAN : MarkCompleted(w, a)
  \/ \E w \in Workers, a \in BOOLEAN : HandleJobError(w, a)
  \/ \E w \in Workers : Wake(w)

SpecFresh == Init /\ [][NextFresh]_vars

\* ---- the analyzers kept running ------------------------------------------
\* One step of the loop of Analyzer.run for worker w.
WorkerStep(w) ==
  \/ ClaimNone(w)
  \/ ClaimSelect(w)
  \/ \E d \in BOOLEAN : ClaimCommit(w, d)
  \/ \E oc \in Outcomes, o \in StoreOutcomes : ProcessJob(w, oc, o)
  \/ \E a \in BOOLEAN : MarkCompleted(w, a)
  \/ \E a \in BOOLEAN : HandleJobError(w, a)
  \/ Wake(w)

\* while (this.running): every worker keeps taking steps, and a store request
\* that is made again and again does not fail every time.
Fairness ==
  \A w \in Workers :
    /\ WF_vars(WorkerStep(w))
    /\ SF_vars(ClaimCommit(w, TRUE))
    /\ SF_vars(MarkCompleted(w, TRUE))
    /\ SF_vars(HandleJobError(w, TRUE))

SpecLive == Init /\ [][NextFresh]_vars /\ Fairness

\* ---- one analyzer process from main() to its exit ---------------------------
\* The worker of the process.
Self == 1

InitProc ==
  /\ jobs = [j \in JobIds |-> NoRow]
  /\ lock = [j \in JobIds |-> 0]
  /\ worker = [w \in Workers |-> Idle]
  /\ providers = {}
  /\ now = 0
  /\ claims = [j \in JobIds |-> 0]
  /\ deliveries = 0
  /\ results = {}
  /\ replaced = NoResult
  /\ prompts = {}
  /\ composed = NoPrompt
  /\ \E unset \in SUBSET Settings, selected \in Selections :
       proc = NotStarted(unset, selected)
  /\ fetched = NoFetch
  /\ db = NoDb
  /\ calls = NoCalls

\* initializeProviders with the settings of the process.
initializeProvidersWith(selected, unset) ==
  { mt \in MediaTypes : createProviderWith(selected[mt], unset) }

\* main(): new Analyzer() validates the settings and creates the providers;
\* a throw is fatal (process.exit(1)).  Otherwise run() goes on, without
\* yielding, to the first login request of matrixLogin.
Main ==
  /\ proc.pc = "init"
  /\ IF validateConfig(proc.unset, proc.selected) # {}
       THEN /\ proc' = [proc EXCEPT !.pc = "fatal"]
            /\ UNCHANGED providers
       ELSE /\ providers' = initializeProvidersWith(proc.selected, proc.unset)
            /\ proc' = [proc EXCEPT !.pc = "login", !.authTried = TRUE]
  /\ UNCHANGED <<jobs, lock, worker, now, claims, deliveries, resultVars,
                 promptVars, fetched, db, calls>>

\* matrixLogin: the answer to the login request.  On 200 the token is kept,
\* run() sets running and enters its loop; otherwise matrixLogin sleeps.
LoginAnswer(status, hint) ==
  /\ proc.pc = "login"
  /\ status # "429" => hint = NULL
  /\ proc' =
       IF status = "200"
         THEN [proc EXCEPT !.pc = "loop", !.token = "valid",
                           !.running = TRUE, !.status = status]
         ELSE [proc EXCEPT !.pc = "backoff", !.status = status,
                           !.hint = hint, !.wait = LoginWait(status, hint)]
  /\ UNCHANGED <<jobs, lock, worker, providers, now, claims, deliveries,
                 resultVars, promptVars, fetched, db, calls>>

\* matrixLogin: while (!this.matrixToken), the next request after the sleep.
LoginRetry ==
  /\ proc.pc = "backoff"
  /\ proc' = [proc EXCEPT !.pc = "login"]
  /\ UNCHANGED <<jobs, lock, worker, providers, now, claims, deliveries,
                 resultVars, promptVars, fetched, db, calls>>

\* Analyzer.stop(), called on the constructed analyzer.
Stop ==
  /\ proc.pc \in {"login", "backoff", "loop"}
  /\ proc' = [proc EXCEPT !.running = FALSE, !.stopped = TRUE]
  /\ UNCHANGED <<jobs, lock, worker, providers, now, claims, deliveries,
                 resultVars, promptVars, fetched, db, calls>>

\* process.on('SIGINT' / 'SIGTERM'): analyzer?.stop(); process.exit(0)
Signal ==
  /\ proc.pc \in {"login", "backoff", "loop"}
  /\ proc' = [proc EXCEPT !.running = FALSE, !.stopped = TRUE,
                          !.pc = "exited"]
  /\ UNCHANGED <<jobs, lock, worker, providers, now, claims, deliveries,
                 resultVars, promptVars, fetched, db, calls>>

\* The media source ends the session of the token.
ExpireToken ==
  /\ proc.pc = "loop" /\ proc.token = "valid"
  /\ proc' = [proc EXCEPT !.token = "expired"]
  /\ UNCHANGED <<jobs, lock, worker, providers, now, claims, deliveries,
                 resultVars, promptVars, fetched, db, calls>>

\* processNextJob of the process: the claim call.
ProcClaim ==
  /\ proc.pc = "loop"
  /\ \/ ClaimNone(Self)
     \/ ClaimSelect(Self)
     \/ \E d \in BOOLEAN : ClaimCommit(Self, d)

\* processJob of the process: downloadMedia sends this.matrixToken, and the
\* media source refuses a token whose session has ended.
ProcRun ==
  /\ proc.pc = "loop"
  /\ \E oc \in Outcomes, o \in StoreOutcomes :
       /\ proc.token = "expired" => oc = "download"
       /\ ProcessJob(Self, oc, o)

\* The finalizing update of the process.
ProcFinalize ==
  /\ proc.pc = "loop"
  /\ \E a \in BOOLEAN : MarkCompleted(Self, a) \/ HandleJobError(Self, a)

\* while (this.running), tested after the sleep: the next cycle, or run()
\* returns.
ProcWake ==
  /\ proc.pc = "loop"
  /\ worker[Self].pc = "sleep"
  /\ IF proc.running
       THEN Wake(Self)
       ELSE /\ proc' = [proc EXCEPT !.pc = "returned"]
            /\ UNCHANGED <<jobs, lock, worker, providers, now, claims,
                           deliveries, resultVars, promptVars, fetched, db, calls>>

NextProc ==
  \/ Main
  \/ \E status \in LoginAnswers, hint \in RetryHints : LoginAnswer(status, hint)
  \/ LoginRetry
  \/ Stop
  \/ Signal
  \/ ExpireToken
  \/ \E e \in JobIds : jobs[e].status = "absent" /\ EnqueueAnalysisJob(e)
  \/ ProcClaim
  \/ ProcRun
  \/ ProcFinalize
  \/ ProcWake

SpecProc == InitProc /\ [][NextProc]_vars

\* ---- processJob alone -------------------------------------------------------
\* The media types a job row may carry (media_type is free text in the table)
\* and the durations of media_info, in milliseconds, around the limit.
PipelineTypes == MediaTypes \cup {"file"}
Durations ==
  {NULL, 0, 1, maxVideoDurationSec * 1000 - 1, maxVideoDurationSec * 1000,
   maxVideoDurationSec * 1000 + 1, maxVideoDurationSec * 1000 + 999,
   maxVideoDurationSec * 1000 + 1000}

InitPipeline ==
  /\ jobs = [j \in JobIds |-> NoRow]
  /\ lock = [j \in JobIds |-> 0]
  /\ worker = [w \in Workers |-> Idle]
  /\ providers = MediaTypes
  /\ now = 0
  /\ claims = [j \in JobIds |-> 0]
  /\ deliveries = 0
  /\ results = {}
  /\ replaced = NoResult
  /\ prompts = {}
  /\ composed = NoPrompt
  /\ proc = Polling
  /\ fetched = NoFetch
  /\ db = NoDb
  /\ calls = NoCalls

\* processJob run for a claimed job of media type mt and duration d by a
\* process that has providers for the media types provs.
RunProcessJob(mt, d, provs, outcome, o) ==
  /\ calls' = [media_type |-> mt, duration |-> d, providers |-> provs,
               outcome |-> outcome, store |-> o,
               steps |-> processJobSteps(mt, d, provs, outcome, o),
               result |-> processJobResult(mt, d, provs, outcome, o),
               analysis_type |-> analysisType(mt)]
  /\ UNCHANGED <<jobs, lock, worker, providers, now, claims, deliveries,
                 resultVars, promptVars, proc, fetched, db>>

NextPipeline ==
  \E mt \in PipelineTypes, d \in Durations, provs \in SUBSET MediaTypes,
     outcome \in Outcomes, o \in StoreOutcomes :
       RunProcessJob(mt, d, provs, outcome, o)

SpecPipeline == InitPipeline /\ [][NextPipeline]_vars

\* ---- the media fetcher alone -------------------------------------------------
InitFetch ==
  /\ jobs = [j \in JobIds |-> NoRow]
  /\ lock = [j \in JobIds |-> 0]
  /\ worker = [w \in Workers |-> Idle]
  /\ providers = MediaTypes
  /\ now = 0
  /\ claims = [j \in JobIds |-> 0]
  /\ deliveries = 0
  /\ results = {}
  /\ replaced = NoResult
  /\ prompts = {}
  /\ composed = NoPrompt
  /\ proc = Polling
  /\ fetched = NoFetch
  /\ db = NoDb
  /\ calls = NoCalls

\* downloadMedia called with or without a token, for a well-formed or a
\* malformed mxc URL, the media source answering the requests as given.
DownloadMedia(token, mxc, answers) ==
  /\ fetched' =
       LET r == downloadMedia(token, mxc, answers)
       IN [token |-> token, mxc |-> mxc, answers |-> answers, ok |-> r.ok,
           requests |-> r.requests, slept |-> r.slept]
  /\ UNCHANGED <<jobs, lock, worker, providers, now, claims, deliveries,
                 resultVars, promptVars, proc, db, calls>>

NextFetch ==
  \E token \in BOOLEAN, mxc \in BOOLEAN, answers \in [1..MaxAnswers -> MediaAnswers] :
    DownloadMedia(token, mxc, answers)

SpecFetch == InitFetch /\ [][NextFetch]_vars

\* ---- the database archiver alone ---------------------------------------------
InitDb ==
  /\ jobs = [j \in JobIds |-> NoRow]
  /\ lock = [j \in JobIds |-> 0]
  /\ worker = [w \in Workers |-> Idle]
  /\ providers = MediaTypes
  /\ now = 0
  /\ claims = [j \in JobIds |-> 0]
  /\ deliveries = 0
  /\ results = {}
  /\ replaced = NoResult
  /\ prompts = {}
  /\ composed = NoPrompt
  /\ proc = Polling
  /\ fetched = NoFetch
  /\ db = NoDb
  /\ calls = NoCalls

dbRest == <<jobs, lock, worker, providers, now, claims, deliveries,
            resultVars, promptVars, proc, fetched, calls>>

\* The bridge stores a message: the next rowid, a timestamp not before those
\* of the rows it already holds.
BridgeInsert(ts) ==
  /\ Cardinality(db.bridge) < MaxMessages
  /\ \A m \in db.bridge : m.timestamp <= ts
  /\ db' = [db EXCEPT !.bridge =
              @ \cup {[rowid |-> Cardinality(db.bridge) + 1, timestamp |-> ts]}]
  /\ UNCHANGED dbRest

\* pollMessages up to its loop: the query returns rows. (With no rows it
\* returns, and a thrown query is caught by run: neither changes anything.)
PollMessages ==
  /\ db.pc = "sleep"
  /\ Query(db.bridge, db.state) # <<>>
  /\ db' = [db EXCEPT !.batch = Query(db.bridge, db.state), !.pc = "batch"]
  /\ UNCHANGED dbRest

\* One turn of the loop of pollMessages, and after the last row saveState.
ProcessMessage(outcome) ==
  /\ db.pc = "batch"
  /\ LET msg == Head(db.batch)
         st == IF Advances(outcome)
                 THEN [lastTimestamp |-> msg.timestamp, lastRowId |-> msg.rowid]
                 ELSE db.state
         last == Len(db.batch) = 1
     IN db' = [db EXCEPT
                 !.messages = IF outcome = "archived"
                                THEN @ \cup {msg.rowid} ELSE @,
                 !.failed = IF outcome \in {"throw", "upsert_error"}
                              THEN @ \cup {msg.rowid} ELSE @ \ {msg.rowid},
                 !.state = st,
                 !.batch = Tail(db.batch),
                 !.saved = IF last THEN st ELSE @,
                 !.pc = IF last THEN "sleep" ELSE "batch"]
  /\ UNCHANGED dbRest

\* The process is restarted: the constructor's loadState reads the state file.
Restart ==
  /\ db.state # db.saved \/ db.pc # "sleep"
  /\ db' = [db EXCEPT !.state = db.saved, !.batch = <<>>, !.pc = "sleep"]
  /\ UNCHANGED dbRest

NextDb ==
  \/ \E ts \in 1..MaxStamp : BridgeInsert(ts)
  \/ PollMessages
  \/ \E outcome \in MessageOutcomes : ProcessMessage(outcome)
  \/ Restart

SpecDb == InitDb /\ [][NextDb]_vars

\* ---- concurrent claim calls against a given table ------------------------
\* The tables the calls start from: each row absent or in any status, never
\* or once attempted, with retry_after null, elapsed or still ahead.
ClaimRows ==
  {NoRow} \cup
  { [status |-> s, attempts |-> a, retry_after |-> r,
     started_at |-> NULL, completed_at |-> NULL, last_error |-> "none",
     created_at |-> c, media_type |-> "image", duration |-> NULL] :
       s \in Statuses, a \in 0..1, r \in {NULL, 0, MaxTime + 1}, c \in 0..1 }

InitClaim ==
  /\ jobs \in [JobIds -> ClaimRows]
  /\ lock = [j \in JobIds |-> 0]
  /\ worker = [w \in Workers |-> Idle]
  /\ providers = MediaTypes
  /\ now = MaxTime
  /\ claims = [j \in JobIds |-> 0]
  /\ deliveries = 0
  /\ results = {}
  /\ replaced = NoResult
  /\ prompts = {}
  /\ composed = NoPrompt
  /\ proc = Polling
  /\ fetched = NoFetch
  /\ db = NoDb
  /\ calls = NoCalls

\* Every worker makes one call and the answer always arrives.
NextClaim ==
  \/ \E w \in Workers : ClaimNone(w)
  \/ \E w \in Workers : ClaimSelect(w)
  \/ \E w \in Workers : ClaimCommit(w, TRUE)

SpecClaim == InitClaim /\ [][NextClaim]_vars

\* ---- the result table alone --------------------------------------------
\* The events storeResult is called for, and the provider answers.
MaxEvents == 1
MaxContent == 3

InitStore ==
  /\ jobs = [j \in JobIds |-> NoRow]
  /\ lock = [j \in JobIds |-> 0]
  /\ worker = [w \in Workers |-> Idle]
  /\ providers = MediaTypes
  /\ now = 0
  /\ claims = [j \in JobIds |-> 0]
  /\ deliveries = 0
  /\ results = {}
  /\ replaced = NoResult
  /\ prompts = {}
  /\ composed = NoPrompt
  /\ proc = Polling
  /\ fetched = NoFetch
  /\ db = NoDb
  /\ calls = NoCalls

\* storeResult called for any event, media type and provider answer.
WriteResult(e, mt, content, o) ==
  /\ StoreResult(ResultRow(e, mt, content), o)
  /\ UNCHANGED <<jobs, lock, worker, providers, now, claims, deliveries,
                 promptVars, serviceVars>>

NextStore ==
  \E e \in 1..MaxEvents, mt \in MediaTypes, c \in 1..MaxContent,
     o \in StoreOutcomes : WriteResult(e, mt, c, o)

SpecStore == InitStore /\ [][NextStore]_vars

\* ---- the prompt composer alone -------------------------------------------
InitPrompt ==
  /\ jobs = [j \in JobIds |-> NoRow]
  /\ lock = [j \in JobIds |-> 0]
  /\ worker = [w \in Workers |-> Idle]
  /\ providers = MediaTypes
  /\ now = 0
  /\ claims = [j \in JobIds |-> 0]
  /\ deliveries = 0
  /\ results = {}
  /\ replaced = NoResult
  /\ prompts = {}
  /\ composed = NoPrompt
  /\ proc = Polling
  /\ fetched = NoFetch
  /\ db = NoDb
  /\ calls = NoCalls

\* INSERT INTO ai_prompts: a row is added to the table.
AddPrompt(row) ==
  /\ Cardinality(prompts) < MaxPrompts
  /\ row \notin prompts
  /\ \A r \in prompts : ~PromptConflict(r, row)
  /\ prompts' = prompts \cup {row}
  /\ UNCHANGED <<jobs, lock, worker, providers, now, claims, deliveries,
                 resultVars, composed, serviceVars>>

\* buildPrompt called for a job of any media type and organization.
BuildPrompt(mediaType, organizationId) ==
  /\ composed' = [mediaType |-> mediaType, organizationId |-> organizationId,
                  prompt |-> buildPrompt(prompts, mediaType, organizationId)]
  /\ UNCHANGED <<jobs, lock, worker, providers, now, claims, deliveries,
                 resultVars, prompts, serviceVars>>

NextPrompt ==
  \/ \E row \in PromptRows : AddPrompt(row)
  \/ \E mt \in MediaTypes, org \in {NULL} \cup Orgs : BuildPrompt(mt, org)

SpecPrompt == InitPrompt /\ [][NextPrompt]_vars

\* ======================= properties ======================================
\* The jobs that were eligible when the concurrent calls began: those still
\* pending and ready, and those a call has claimed since.
InitiallyEligible == { j \in JobIds : Ready(jobs[j], now) \/ claims[j] > 0 }

\* The worker's claim call has answered.
Returned(w) == worker[w].pc \in {"run", "sleep"}

\* The job the worker's claim call answered with, NoJob for none.
Received(w) == IF worker[w].pc = "run" THEN worker[w].job ELSE NoJob

\* C1 -- No double-claim: no two concurrent claim calls return the same job,
\* and when the table held exactly one eligible job and every call has
\* answered, exactly one call received that job and all others received none.
C1_NoDoubleClaim ==
  /\ \A w1, w2 \in Workers :
       (w1 # w2 /\ Received(w1) # NoJob) => Received(w1) # Received(w2)
  /\ (Cardinality(InitiallyEligible) = 1 /\ \A w \in Workers : Returned(w)) =>
       \E w \in Workers :
         /\ Received(w) \in InitiallyEligible
         /\ \A v \in Workers \ {w} : Received(v) = NoJob

\* C1 witness: all calls have answered against a table with one eligible job
\* beside a pending row whose retry_after is still ahead; one call got the job.
C1_Witness ==
  /\ Cardinality(InitiallyEligible) = 1
  /\ \A w \in Workers : Returned(w)
  /\ \E w \in Workers : Received(w) \in InitiallyEligible
  /\ \E j \in JobIds : jobs[j].status = "pending" /\ jobs[j].retry_after > now

\* The worker is executing the pipeline for job j: between the claim's answer
\* and the finalizing update.
Executing(w, j) ==
  worker[w].pc \in {"run", "ok", "err"} /\ worker[w].job = j

\* C2 -- Exclusive hold: at most one worker is executing the pipeline for a
\* given job at any time, retries included.
C2_ExclusiveHold ==
  \A j \in JobIds : Cardinality({ w \in Workers : Executing(w, j) }) <= 1

\* C2 witness: a job is being executed on a retry (its second claim) while
\* another worker is polling the table.
C2_Witness ==
  \E j \in JobIds, w, v \in Workers :
    /\ Executing(w, j) /\ claims[j] >= 2
    /\ v # w /\ worker[v].pc = "poll"

RetryableErrors == {"download", "provider", "store"}

\* C3 -- Retry budget: a job whose every execution failed retryably is failed
\* only by its maxRetries-th failure, so a failed job was claimed exactly
\* maxRetries times and no job is claimed more often.
C3_RetryBudget ==
  \A j \in JobIds :
    /\ claims[j] <= maxRetries
    /\ (jobs[j].status = "failed" /\ jobs[j].last_error \in RetryableErrors)
         => claims[j] = maxRetries

\* C4 -- Attempt count: a job's stored attempts equal the number of times it
\* was claimed; the finalizing updates leave it alone.
C4_AttemptsAreClaims ==
  \A j \in JobIds : jobs[j].status # "absent" => jobs[j].attempts = claims[j]

\* C5 -- Terminal failure: once failed, a job stays failed (and so is never
\* claimed again), whatever the workers and the archivers do.
C5_TerminalFailure ==
  [][\A j \in JobIds : jobs[j].status = "failed" => jobs'[j].status = "failed"]_vars

\* The status changes a job row may make: the producer's insert and the four
\* transitions of the worker.
AllowedTransitions ==
  { <<"absent", "pending">>, <<"pending", "processing">>,
    <<"processing", "completed">>, <<"processing", "pending">>,
    <<"processing", "failed">> }

\* C6 -- Status transitions: every status change is pending->processing,
\* processing->completed, processing->pending or processing->failed (or the
\* insert of a new pending row); completed and failed are never left.
C6_Transitions ==
  [][\A j \in JobIds :
       jobs'[j].status # jobs[j].status =>
         <<jobs[j].status, jobs'[j].status>> \in AllowedTransitions]_vars

\* C6 witness: a job went back to pending after a failure, was claimed a
\* second time and has reached completed or failed.
C6_Witness ==
  \E j \in JobIds : jobs[j].status \in {"completed", "failed"} /\ claims[j] >= 2

\* C7 -- Enqueue of a known event: an enqueue for an event that already has a
\* job row leaves every existing row exactly as it was.
C7_EnqueueKeepsRow ==
  [][deliveries' = deliveries + 1 =>
       \A e \in JobIds : jobs[e].status # "absent" => jobs'[e] = jobs[e]]_vars

\* C8 -- Retry delay: a failure that returns the job to pending clears
\* started_at and sets retry_after to a time after now, and a claim takes a
\* job only when its retry_after is null or has passed.
C8_RetryDelay ==
  [][\A j \in JobIds :
       /\ (jobs[j].status = "processing" /\ jobs'[j].status = "pending") =>
            /\ jobs'[j].started_at = NULL
            /\ jobs'[j].retry_after # NULL
            /\ jobs'[j].retry_after > now
       /\ (jobs[j].status = "pending" /\ jobs'[j].status = "processing") =>
            (jobs[j].retry_after = NULL \/ jobs[j].retry_after <= now)]_vars

RECURSIVE Pow2(_)
Pow2(n) == IF n = 0 THEN 1 ELSE 2 * Pow2(n - 1)

Min(a, b) == IF a <= b THEN a ELSE b

\* C9 -- Backoff growth: the delay recorded by a failure that returns the job
\* to pending is base * 2^attempt capped, for a positive base and cap.
C9_BackoffGrowth ==
  [][\A j \in JobIds :
       (jobs[j].status = "processing" /\ jobs'[j].status = "pending") =>
         \E base \in 1..(MaxTime + 1), cap \in 1..(MaxTime + 1) :
           /\ jobs'[j].retry_after # NULL
           /\ jobs'[j].retry_after - now
                = Min(base * Pow2(jobs'[j].attempts), cap)]_vars

\* C10 -- No provider: a job whose execution found no provider for its media
\* type is failed by that execution; it is never pending or processing again.
C10_NoProviderIsFinal ==
  \A j \in JobIds :
    jobs[j].last_error = "no_provider" => jobs[j].status = "failed"

\* C11 -- Over-long video: a video job whose duration exceeds
\* maxVideoDurationSec is failed by its first execution, with the duration
\* named in last_error and attempts at the value the claim gave it, and it is
\* never claimed a second time.
C11_OverlongVideoFails ==
  \A j \in JobIds :
    jobs[j].last_error = "duration" =>
      /\ jobs[j].status = "failed"
      /\ jobs[j].attempts = 1
      /\ claims[j] = 1

\* C12 -- Idempotent result storage: media_analysis holds at most one row per
\* (event, analysis type), and a later write for a key wins: the row it
\* replaced is gone and the key still has its row.
C12_OneRowPerKey ==
  /\ \A r, q \in results : SameKey(r, q) => r = q
  /\ replaced # NoResult =>
       /\ replaced \notin results
       /\ \E r \in results : SameKey(r, replaced)

\* C12 witness: a key was written a second time with another content, and the
\* table holds one row for it, with the later content.
C12_Witness ==
  /\ replaced # NoResult
  /\ \E r \in results : SameKey(r, replaced) /\ r.content # replaced.content
  /\ Cardinality({ r \in results : SameKey(r, replaced) }) = 1

\* The job's result row is in media_analysis.
HasResult(j) ==
  \E r \in results :
    r.event_id = j /\ r.analysis_type = analysisType(jobs[j].media_type)

\* C13 -- Result before completion: every completed job has a result row in
\* media_analysis.
C13_CompletedHasResult ==
  \A j \in JobIds : jobs[j].status = "completed" => HasResult(j)

\* C13 witness: a job completed on its second execution, after one that
\* failed, and its result row is stored.
C13_Witness ==
  \E j \in JobIds :
    jobs[j].status = "completed" /\ claims[j] >= 2 /\ HasResult(j)

\* The execution the worker is in has written its row to media_analysis.
Wrote(w) == ResultOf(w) \in results

\* C14 -- No result from a failed execution: an execution on its way to
\* handleJobError (its job then set to pending or failed) has written no
\* result row.
C14_FailedWroteNothing ==
  \A w \in Workers : worker[w].pc = "err" => ~Wrote(w)

\* The rows media_analysis holds for the job's key.
RowsOf(j) ==
  { r \in results :
      r.event_id = j /\ r.analysis_type = analysisType(jobs[j].media_type) }

\* C15 -- Write failure: an execution goes on to mark its job completed only
\* when its result row is stored; an execution whose upsert reported a failure
\* issues the failure update of handleJobError and never completes the job;
\* and a job completed by a re-run after such a failure has exactly one row for
\* its key, the whole row of the re-run.
C15_WriteFailureRetried ==
  [][/\ \A w \in Workers :
          (worker[w].pc = "run" /\ worker'[w].pc = "ok") =>
            ResultOf(w) \in results'
     /\ \A w \in Workers :
          (/\ worker[w].pc = "err" /\ worker[w].error = "store"
           /\ worker'[w] # worker[w]) =>
            LET j == worker[w].job
            IN /\ jobs'[j].status # "completed"
               /\ jobs'[j] \in
                    { jobs[j],
                      FailureUpdate(jobs[j], worker[w].attempts, "store") }
     /\ \A j \in JobIds :
          (jobs'[j].status = "completed" /\ jobs'[j].last_error = "store") =>
            RowsOf(j)' =
              { ResultRow(j, jobs'[j].media_type, jobs'[j].attempts) }]_vars

\* C15 witness: a job whose upsert failed was executed again and completed,
\* and media_analysis holds one row for it.
C15_Witness ==
  \E j \in JobIds :
    /\ jobs[j].status = "completed" /\ jobs[j].last_error = "store"
    /\ claims[j] >= 2
    /\ Cardinality(RowsOf(j)) = 1

\* C16 -- No dropped jobs: with every worker kept running and scheduled
\* fairly, a job in processing that a worker is executing eventually leaves
\* processing, also when the update that finalizes it fails.
C16_NoDroppedJobs ==
  \A j \in JobIds :
    (jobs[j].status = "processing" /\ \E w \in Workers : Executing(w, j))
      ~> (jobs[j].status # "processing")

\* C17 -- Claim error: when the claim call answers the worker with a store
\* error, the worker runs no pipeline and issues no update, and the job the
\* call had selected is not left in processing with no worker executing it.
C17_ClaimErrorKeepsJobs ==
  [][\A w \in Workers :
       (worker[w].pc = "claim" /\ worker'[w].pc = "sleep") =>
         LET j == worker[w].job
         IN jobs'[j].status = "processing" =>
              \E v \in Workers : Executing(v, j)']_vars

\* C18 -- Errors are caught: an execution that throws anywhere in the pipeline
\* takes the worker to handleJobError with its job and the error; from there
\* the worker issues the one failure update for that job (which the store
\* applies or not) and sleeps; a sleeping worker polls again; and a worker
\* always has a next step.
C18_ErrorsCaught ==
  /\ [](\A w \in Workers : ENABLED WorkerStep(w))
  /\ [][\A w \in Workers :
          worker'[w] # worker[w] =>
            LET j == worker[w].job
            IN /\ worker[w].pc = "run" =>
                    \/ worker'[w].pc = "ok"
                    \/ /\ worker'[w].pc = "err"
                       /\ worker'[w].job = j
                       /\ worker'[w].error # "none"
               /\ worker[w].pc = "err" =>
                    /\ worker'[w].pc = "sleep"
                    /\ jobs'[j] \in
                         { jobs[j],
                           FailureUpdate(jobs[j], worker[w].attempts,
                                         worker[w].error) }
                    /\ \A k \in JobIds \ {j} : jobs'[k] = jobs[k]
               /\ worker[w].pc = "sleep" =>
                    worker'[w].pc = "poll" /\ jobs' = jobs]_vars

\* C18 witness: a job's execution failed, the failure update was applied, and
\* a worker of the continuing loop has claimed the job again.
C18_Witness ==
  \E j \in JobIds, w \in Workers :
    /\ jobs[j].last_error # "none"
    /\ claims[j] >= 2
    /\ worker[w].pc = "run" /\ worker[w].job = j

\* The data model's rule: at most one active record per tier.
OneActivePerTier(table) ==
  \A t \in PromptTypes, org \in {NULL} \cup Orgs :
    Cardinality(SelectPrompts(table, t, org)) <= 1

\* The text of a tier as a list of no or one text: none when the tier has no
\* active record.
TierText(table, t, org) ==
  LET rows == SelectPrompts(table, t, org)
  IN IF rows = {} THEN <<>>
     ELSE << Text((CHOOSE r \in rows : TRUE).prompt_content) >>

\* The same, an active record with the empty text counting as none.
TierTextNonEmpty(table, t, org) ==
  IF TierText(table, t, org) = << <<>> >> THEN <<>>
  ELSE TierText(table, t, org)

\* Up to three texts joined by one blank line between neighbours.
Glue(ts) ==
  IF Len(ts) = 0 THEN <<>>
  ELSE IF Len(ts) = 1 THEN ts[1]
  ELSE IF Len(ts) = 2 THEN ts[1] \o <<Blank>> \o ts[2]
  ELSE ts[1] \o <<Blank>> \o ts[2] \o <<Blank>> \o ts[3]

\* C19 as stated -- the composed prompt is the texts of the tiers that have
\* an active record, in the order master, media type, organization, joined by
\* one blank line; the organization's tier only when an organization is given.
C19_ComposeAsStated ==
  [][(composed' # composed /\ OneActivePerTier(prompts)) =>
       LET mt == composed'.mediaType
           org == composed'.organizationId
       IN composed'.prompt =
            Glue(TierText(prompts, "master", NULL)
                 \o TierText(prompts, mt, NULL)
                 \o (IF org # NULL THEN TierText(prompts, mt, org)
                                   ELSE <<>>))]_vars

\* C19 -- the composed prompt is the texts of the tiers that have an active
\* record with a non-empty text, in the order master, media type,
\* organization, joined by one blank line; the other tiers contribute neither
\* text nor separator, and the organization's tier is left out when no
\* organization is given.
C19_Compose ==
  [][(composed' # composed /\ OneActivePerTier(prompts)) =>
       LET mt == composed'.mediaType
           org == composed'.organizationId
       IN composed'.prompt =
            Glue(TierTextNonEmpty(prompts, "master", NULL)
                 \o TierTextNonEmpty(prompts, mt, NULL)
                 \o (IF org # NULL THEN TierTextNonEmpty(prompts, mt, org)
                                   ELSE <<>>))]_vars

\* C19 witness: a prompt composed for an organization from three tiers, the
\* master text differing from the media type's, with the table unchanged
\* since.
C19_Witness ==
  /\ composed.organizationId # NULL
  /\ Len(composed.prompt) = 5
  /\ composed.prompt[1] # composed.prompt[3]
  /\ OneActivePerTier(prompts)
  /\ composed.prompt =
       buildPrompt(prompts, composed.mediaType, composed.organizationId)

\* C20 -- Claim order: the job a claim call selects is pending, ready and not
\* locked, and no other pending, ready, unlocked job was created before it.
C20_OldestFirst ==
  [][\A w \in Workers :
       (worker[w].pc = "poll" /\ worker'[w].pc = "claim") =>
         LET j == worker'[w].job
         IN /\ Ready(jobs[j], now) /\ lock[j] = 0
            /\ \A k \in JobIds :
                 (Ready(jobs[k], now) /\ lock[k] = 0) =>
                   jobs[j].created_at <= jobs[k].created_at]_vars

\* C20 witness: a call has selected a job while a younger job is pending,
\* ready and unlocked.
C20_Witness ==
  \E w \in Workers, k \in JobIds :
    /\ worker[w].pc = "claim"
    /\ Ready(jobs[k], now) /\ lock[k] = 0
    /\ jobs[k].created_at > jobs[worker[w].job].created_at

\* C21 -- Providers fail fast: when the provider selected for some media type
\* cannot be created (no API key, or a name that is unknown or not
\* implemented), startup fails: the process never logs in or polls.
C21_ProvidersFailFast ==
  (\E mt \in MediaTypes : ~createProviderWith(proc.selected[mt], proc.unset))
    => proc.pc \in {"init", "fatal"}

\* The settings a process needs: the store's URL and key, the media source's
\* password, and the API key of every selected provider that has one.
RequiredSettings(selected) ==
  StoreSettings \cup
  ({ ApiKeyOf(selected[mt]) : mt \in MediaTypes } \cap KeySettings)

\* C22 -- Missing setting: a process started with a required setting unset
\* ends with the fatal error; it never sends a login request and never makes
\* a claim call.
C22_MissingSettingIsFatal ==
  (RequiredSettings(proc.selected) \cap proc.unset # {}) =>
    /\ proc.pc \in {"init", "fatal"}
    /\ ~proc.authTried
    /\ worker[Self] = Idle
    /\ \A j \in JobIds : claims[j] = 0

\* C22 witness: a process whose only unset setting is the API key of a
\* selected provider has ended with the fatal error.
C22_Witness ==
  /\ proc.pc = "fatal"
  /\ proc.unset \cap StoreSettings = {}
  /\ proc.unset \cap RequiredSettings(proc.selected) # {}

\* C23 -- Shutdown signal: the process does not exit on a signal while a step
\* of a claimed job (the pipeline, or the finalizing update) is in flight.
C23_SignalWaitsForStep ==
  proc.pc = "exited" => worker[Self].pc \notin {"run", "ok", "err"}

\* The step in which the process sends a claim call: the loop of run() is
\* entered after the login, or a new cycle begins after the sleep.
IssuesClaim ==
  \/ proc.pc = "login" /\ proc'.pc = "loop"
  \/ proc.pc = "loop" /\ worker[Self].pc = "sleep" /\ worker'[Self].pc = "poll"

ReachesDownload(w) ==
  LET j == worker[w].job
  IN PipelineResult(jobs[j].media_type, jobs[j].duration, providers, "ok")
       = "ok"

\* C26 -- Expired credential: a media request is never sent with a token
\* whose session has ended; the process logs in again first.
C26_FreshCredential ==
  [][(/\ proc.pc = "loop"
      /\ worker[Self].pc = "run" /\ worker'[Self].pc # "run"
      /\ ReachesDownload(Self)) => proc.token = "valid"]_vars

\* The fixed waits of the login loop, in milliseconds.
FixedBackoffs == {5000, 60000}

\* C27 -- Login before polling: no claim call is sent before a login request
\* was answered with 200; a failed login attempt (429, another status, a
\* thrown error) is followed by a wait -- the hint of a 429 when it carries
\* one, else a fixed backoff -- and then by another attempt, without limit.
C27_LoginBeforePolling ==
  /\ [](proc.pc = "backoff" =>
          /\ ENABLED LoginRetry
          /\ IF proc.status = "429" /\ proc.hint # NULL
               THEN proc.wait = proc.hint
               ELSE proc.wait \in FixedBackoffs)
  /\ [][/\ IssuesClaim => (proc'.token # "none" /\ proc'.status = "200")
        /\ (proc.pc = "login" /\ proc'.pc \notin {"login", "exited"}) =>
             \/ proc'.pc = "loop" /\ proc'.status = "200"
             \/ proc'.pc = "backoff" /\ proc'.status # "200"
        /\ (proc.pc = "backoff" /\ proc'.pc # "backoff") =>
             proc'.pc \in {"login", "exited"}]_vars

\* C27 witness: a process that was rate-limited with a hint, logged in on a
\* later attempt and has claimed a job.
C27_Witness ==
  /\ proc.pc = "loop" /\ proc.hint # NULL /\ proc.token = "valid"
  /\ \E j \in JobIds : claims[j] > 0

\* A fetch that got as far as its requests did so.
Requested == fetched.token /\ fetched.mxc

\* C25 as stated -- a fetch that makes requests returns a failure only after
\* three attempts, every failed attempt having been retried after a sleep.
C25_RetriesAsStated ==
  (Requested /\ ~fetched.ok) =>
    (fetched.requests = 3 /\ Len(fetched.slept) = 2)

\* C28 -- a claim is applied only to a job whose status was pending; it sets
\* exactly status = processing, attempts = attempts + 1, started_at = now and
\* retry_after = null on that row, the record it returns equals the stored row
\* after the update, and every other job row is unchanged.
C28_ClaimEffect ==
  [][\A w \in Workers :
       (worker[w].pc = "claim" /\ worker'[w].pc # "claim") =>
         LET j == worker[w].job
         IN /\ jobs[j].status = "pending"
            /\ jobs'[j] = [jobs[j] EXCEPT !.status = "processing",
                                          !.attempts = @ + 1,
                                          !.started_at = now,
                                          !.retry_after = NULL]
            /\ claimed_job(jobs[j], now) = jobs'[j]
            /\ worker'[w].pc = "run" =>
                 /\ worker'[w].job = j
                 /\ worker'[w].attempts = jobs'[j].attempts
            /\ \A k \in JobIds \ {j} : jobs'[k] = jobs[k]]_vars

\* C28 witness: a worker holds a job it claimed on the job's second attempt,
\* while another job that waits for its retry time is still pending.
C28_Witness ==
  \E w \in Workers, k \in JobIds :
    /\ worker[w].pc = "run" /\ worker[w].attempts = 2
    /\ jobs[worker[w].job].status = "processing"
    /\ jobs[worker[w].job].attempts = 2
    /\ jobs[worker[w].job].started_at = now
    /\ k # worker[w].job
    /\ jobs[k].status = "pending" /\ jobs[k].retry_after # NULL

\* C29 -- no job is claimable at or beyond the attempt maximum: a job whose
\* status is pending has attempts below maxRetries, so no claim selects a job
\* whose attempts before the claim are maxRetries or more.
C29_PendingBelowMax ==
  \A j \in JobIds : jobs[j].status = "pending" => jobs[j].attempts < maxRetries

\* The bridge row with a given rowid.
BridgeRow(r) == CHOOSE m \in db.bridge : m.rowid = r

\* C30 -- database archiver, no missed messages: between two poll cycles, a
\* bridge message whose last processing failed (it threw, or the messages
\* upsert reported an error) and that is not archived is still newer than the
\* cursor, in memory and in the state file, so that a later cycle processes
\* it again.
C30_FailedNotSkipped ==
  db.pc = "sleep" =>
    \A r \in db.failed \ db.messages :
      NewerThan(BridgeRow(r), db.state) \/ NewerThan(BridgeRow(r), db.saved)

\* C31 -- skip-locked, non-blocking claim: a caller that finds ready rows
\* locked by another call's transaction skips them and selects the oldest
\* ready row that is not locked, without waiting; a call that has selected a
\* row can always finish; and two calls never hold or return the same job.
C31_SkipLocked ==
  /\ [](\A w \in Workers :
         /\ (/\ worker[w].pc = "poll"
             /\ \E j \in JobIds : Ready(jobs[j], now) /\ lock[j] = 0) =>
               ENABLED ClaimSelect(w)
         /\ worker[w].pc = "claim" => ENABLED ClaimCommit(w, TRUE))
  /\ [](\A w1, w2 \in Workers :
         (/\ w1 # w2
          /\ worker[w1].pc \in {"claim", "run"}
          /\ worker[w2].pc \in {"claim", "run"}) =>
            worker[w1].job # worker[w2].job)
  /\ [][\A w \in Workers :
          (worker[w].pc = "poll" /\ worker'[w].pc = "claim") =>
            LET j == worker'[w].job
            IN /\ lock[j] = 0 /\ lock'[j] = w
               /\ \A k \in JobIds :
                    (Ready(jobs[k], now) /\ jobs[k].created_at < jobs[j].created_at)
                      => lock[k] \notin {0, w}]_vars

\* C31 witness: two calls are in their transactions at once, and the one that
\* came second holds a younger job than the one the first has locked.
C31_Witness ==
  \E w1, w2 \in Workers :
    /\ w1 # w2
    /\ worker[w1].pc = "claim" /\ worker[w2].pc = "claim"
    /\ lock[worker[w1].job] = w1 /\ lock[worker[w2].job] = w2
    /\ jobs[worker[w1].job].created_at < jobs[worker[w2].job].created_at

\* processJob has run for a job whose media type has a provider.
RanWithProvider == calls # NoCalls /\ calls.media_type \in calls.providers

EntryPoints == {"analyzeImage", "analyzeVideo", "analyzeAudio"}

\* The positions of the provider calls in the last run.
Analyses == { i \in 1..Len(calls.steps) : calls.steps[i] \in EntryPoints }

\* C33 -- a job that reaches the analysis step has exactly one provider
\* method called, the one of its media type (image: analyzeImage, video:
\* analyzeVideo, audio: analyzeAudio), on the provider registered for that
\* type; the result stored is a transcription for audio and a description for
\* image and video.  A job that does not reach the step has none called.
C33_EntryPoint ==
  /\ calls.result \in {"provider", "store", "ok"} =>
       /\ Cardinality(Analyses) = 1
       /\ calls.media_type \in calls.providers
       /\ \A i \in Analyses :
            calls.steps[i] =
              (IF calls.media_type = "image" THEN "analyzeImage"
               ELSE IF calls.media_type = "video" THEN "analyzeVideo"
               ELSE "analyzeAudio")
       /\ calls.media_type \in MediaTypes
  /\ calls.result \notin {"provider", "store", "ok"} => Analyses = {}
  /\ (\E i \in 1..Len(calls.steps) : calls.steps[i] = "storeResult") =>
       /\ Analyses # {}
       /\ calls.analysis_type =
            (IF calls.media_type = "audio" THEN "transcription"
                                          ELSE "description")

\* C33 witness: an audio job has been analysed and its result stored.
C33_Witness ==
  /\ calls.media_type = "audio" /\ calls.result = "ok"
  /\ calls.steps[3] = "analyzeAudio" /\ calls.steps[4] = "storeResult"

\* The positions of a worker between the answer of its claim and its
\* finalizing update.
InFlight == {"run", "ok", "err"}

\* C34 -- one job in flight per worker: a worker that was handed a job keeps
\* that job, and makes no claim call, until it has attempted the finalizing
\* update (completed or failure) for it; a claim call is made only at the
\* start of a cycle, after the sleep, and hands over at most one job.
C34_OneJobInFlight ==
  [][\A w \in Workers :
       /\ (worker[w].pc \in InFlight /\ worker'[w] # worker[w]) =>
            \/ /\ worker[w].pc = "run" /\ worker'[w].pc \in {"ok", "err"}
               /\ worker'[w].job = worker[w].job
            \/ /\ worker[w].pc \in {"ok", "err"} /\ worker'[w].pc = "sleep"
               /\ \/ jobs' = jobs
                  \/ jobs'[worker[w].job].status \in
                       {"completed", "pending", "failed"}
       /\ (worker'[w].pc = "poll" /\ worker[w].pc # "poll") =>
            worker[w].pc = "sleep"
       /\ (worker'[w].pc = "claim" /\ worker[w].pc # "claim") =>
            worker[w].pc = "poll"
       /\ (worker'[w].pc = "run" /\ worker[w].pc # "run") =>
            (worker[w].pc = "claim" /\ worker'[w].job = worker[w].job)]_vars

\* C34 witness: the process executes a job it was handed for the second time,
\* having finalized the first execution as a failure before it claimed again.
C34_Witness ==
  /\ worker[Self].pc = "run"
  /\ claims[worker[Self].job] >= 2
  /\ jobs[worker[Self].job].last_error # "none"

\* C35 -- a fetch makes at most 3 requests in all, the retries after a 404
\* and after a thrown error counted together; it ends, with no sleep after
\* its last request; and it returns the media on the first request answered
\* 200, making no request after it.
C35_RequestBudget ==
  /\ fetched.requests \in 0..3
  /\ Len(fetched.slept) <= 2
  /\ fetched.requests > 0 => Len(fetched.slept) = fetched.requests - 1
  /\ fetched.ok <=>
       (fetched.requests > 0 /\ fetched.answers[fetched.requests] = "200")
  /\ \A i \in 1..(fetched.requests - 1) : fetched.answers[i] # "200"

\* C35 witness: a fetch whose first request got a 404 and whose second got
\* the media has returned it after two requests, the later answers unused.
C35_Witness ==
  /\ fetched.ok /\ fetched.requests = 2
  /\ fetched.answers[1] = "404"
  /\ \A i \in 2..MaxAnswers : fetched.answers[i] = "200"
  /\ fetched.slept = <<2000>>

\* The tiers buildPrompt composes for a media type and an organization.
Tiers(mt, org) ==
  {<<"master", NULL>>, <<mt, NULL>>} \cup
  (IF org # NULL THEN {<<mt, org>>} ELSE {})

\* C36 -- a tier is left out of the composed prompt only when the table holds
\* no active record for it: whenever the table holds one or more active
\* records of a tier (with a text that is not empty), the composed prompt
\* contains the text of an active record of that tier.
C36_ActiveTierIncluded ==
  [][composed' # composed =>
       \A q \in Tiers(composed'.mediaType, composed'.organizationId) :
         (\E r \in SelectPrompts(prompts, q[1], q[2]) : r.prompt_content # "")
           => \E r \in SelectPrompts(prompts, q[1], q[2]),
                 i \in 1..Len(composed'.prompt) :
                   composed'.prompt[i] = r.prompt_content]_vars

\* C37 -- after every failure update that the store applies, the job's
\* last_error is the message of the error that ended that execution: the
\* error thrown by processJob is the one handed to handleJobError, the update
\* writes it over any earlier one, and no other step changes last_error.
C37_LastErrorIsLatest ==
  [][/\ \A w \in Workers :
          LET j == worker[w].job
          IN /\ (worker[w].pc = "run" /\ worker'[w].pc = "err") =>
                  /\ worker'[w].error # "none"
                  /\ worker'[w].error = "no_provider" <=>
                       jobs[j].media_type \notin providers
                  /\ worker'[w].error = "duration" =>
                       DurationExceeded(jobs[j].media_type, jobs[j].duration)
             /\ (/\ worker[w].pc = "err" /\ worker'[w].pc = "sleep"
                 /\ jobs'[j] # jobs[j]) =>
                  jobs'[j].last_error = worker[w].error
     /\ \A j \in JobIds :
          jobs'[j].last_error # jobs[j].last_error =>
            \E w \in Workers :
              /\ worker[w].pc = "err" /\ worker[w].job = j
              /\ worker'[w].pc = "sleep"]_vars

\* C37 witness: a job failed twice, first when its stored result was reported
\* as an error and then at the download, and carries the second reason.
C37_Witness ==
  \E j \in JobIds :
    /\ claims[j] = 2 /\ jobs[j].status = "failed"
    /\ HasResult(j)
    /\ jobs[j].last_error = "download"

\* C38 -- a job's stored attempts never exceed maxRetries, whatever claims,
\* failures and successes it goes through.
C38_AttemptsWithinMax ==
  \A j \in JobIds : jobs[j].attempts <= maxRetries

====
